---------------------------- MODULE Spec2Model ----------------------------
(***************************************************************************)
(* Model of download_upload_weather_prediction_data_to_s3.py: the period   *)
(* formatter (parse_period), the manifest reader (read_urls_from_csv),     *)
(* the two retry loops (download_file, upload_to_s3) and the per-record    *)
(* loop of main.                                                           *)
(*                                                                         *)
(* Text is a sequence of one-character strings.  The three date markers of *)
(* the regular expression are written "Y" (nen, year), "M" (gatsu, month)  *)
(* and "D" (nichi, day); "~" stands for the wave dash between two dates.   *)
(***************************************************************************)
EXTENDS Integers, Sequences, FiniteSets, TLC

VARIABLES
    padYear,            \* platform: does the C library's strftime pad %Y to 4 digits
    period_parts,       \* the fragments period_str was written from (SpecParse)
    period_str,         \* parse_period: the argument (SpecParse)
    formatted_period,   \* parse_period: the value returned (SpecParse)
    attempt_outcomes,   \* two scripts of curl outcomes, one per attempt (SpecDownload)
    download_results,   \* what download_file did under each script (SpecDownload)
    manifest,           \* the CSV file at CSV_FILE_PATH
    retries,            \* the retries argument (RETRIES)
    backoff_factor,     \* the backoff_factor argument (BACKOFF_FACTOR)
    pc,                 \* position of the thread of control
    records,            \* main: records
    idx,                \* main: idx, the record being processed (1-based)
    download_path,      \* main: download_path of the current record
    attempt,            \* download_file / upload_to_s3: attempt
    fetchCalls,         \* subprocess.run calls made for the current record
    uploadCalls,        \* s3_client.upload_file calls made for the current record
    dlSleeps,           \* time.sleep durations of the current download_file call
    ulSleeps,           \* time.sleep durations of the current upload_to_s3 call
    lastFetch,          \* outcome of the latest curl attempt of the current record
    fetchLog,           \* "ok" / "fail" of each curl attempt of the current record
    uploadLog,          \* outcome of each upload attempt of the current record
    jobState,           \* per record: how far main has taken it
    hist,               \* per record: the sequence of jobState values it passed
    paths,              \* per record: the download_path main built for it
    ends,               \* per record: how each stage ended
    fs,                 \* the local file system: path -> file
    s3,                 \* the bucket: key -> object
    removed             \* paths for which os.remove returned

vars == <<padYear, period_parts, period_str, formatted_period,
          attempt_outcomes, download_results, manifest, retries,
          backoff_factor, pc, records, idx, download_path, attempt,
          fetchCalls, uploadCalls, dlSleeps, ulSleeps, lastFetch, fetchLog,
          uploadLog, jobState, hist, paths, ends, fs, s3, removed>>

-----------------------------------------------------------------------------
(* Bounds of the model *)

\* parse_period inputs hold at most this number of date fragments
MaxDates == 3

\* manifests of SpecCsv hold at most this number of rows
MaxCsvRows == 2

\* manifests of Spec hold at most this number of rows
MaxRecords == 2

\* the retries argument ranges over 1..MaxRetries
MaxRetries == 3

-----------------------------------------------------------------------------
(* Text helpers *)

Digits == <<"0", "1", "2", "3", "4", "5", "6", "7", "8", "9">>

IsDigit(c) == \E k \in 1..10 : Digits[k] = c

DigitVal(c) == (CHOOSE k \in 1..10 : Digits[k] = c) - 1

\* int(s) for a string of decimal digits
RECURSIVE int(_)
int(s) ==
    IF s = <<>> THEN 0
    ELSE 10 * int(SubSeq(s, 1, Len(s) - 1)) + DigitVal(s[Len(s)])

\* str(n) for n >= 0
RECURSIVE str(_)
str(n) ==
    IF n < 10 THEN <<Digits[n + 1]>>
    ELSE str(n \div 10) \o <<Digits[(n % 10) + 1]>>

\* n printed in at least w digits, padded with zeros on the left
RECURSIVE ZeroPad(_, _)
ZeroPad(s, w) == IF Len(s) >= w THEN s ELSE ZeroPad(<<"0">> \o s, w)

\* str(None), as an f-string prints it
NoneText == <<"N", "o", "n", "e">>

-----------------------------------------------------------------------------
(* parse_period *)

AllDigits(s, from, to) == \A k \in from..to : k <= Len(s) /\ IsDigit(s[k])

At(s, k, c) == k <= Len(s) /\ s[k] = c

\* \d{1,2} followed by the marker c, tried at position k: the number of
\* digits taken (0: no match).  Two digits are tried first (greedy).
Digits12(s, k, c) ==
    IF AllDigits(s, k, k + 1) /\ At(s, k + 2, c) THEN 2
    ELSE IF AllDigits(s, k, k) /\ At(s, k + 1, c) THEN 1
    ELSE 0

\* (\d{4})Y(\d{1,2})M(\d{1,2})D tried at position i
MatchAt(s, i) ==
    IF ~(AllDigits(s, i, i + 3) /\ At(s, i + 4, "Y"))
    THEN [found |-> FALSE]
    ELSE LET nm == Digits12(s, i + 5, "M")
         IN  IF nm = 0 THEN [found |-> FALSE]
             ELSE LET dstart == i + 5 + nm + 1
                      nd     == Digits12(s, dstart, "D")
                  IN  IF nd = 0 THEN [found |-> FALSE]
                      ELSE [found |-> TRUE,
                            groups |-> <<SubSeq(s, i, i + 3),
                                         SubSeq(s, i + 5, i + 4 + nm),
                                         SubSeq(s, dstart, dstart + nd - 1)>>,
                            next |-> dstart + nd + 1]

\* re.findall: the non-overlapping matches, scanning from the left
RECURSIVE findall(_, _)
findall(s, i) ==
    IF i > Len(s) THEN <<>>
    ELSE LET m == MatchAt(s, i)
         IN  IF m.found THEN <<m.groups>> \o findall(s, m.next)
             ELSE findall(s, i + 1)

MINYEAR == 1
MAXYEAR == 9999

IsLeap(y) == (y % 4 = 0) /\ ((y % 100 # 0) \/ (y % 400 = 0))

DaysInMonth(y, m) ==
    IF m = 2 THEN (IF IsLeap(y) THEN 29 ELSE 28)
    ELSE IF m \in {4, 6, 9, 11} THEN 30 ELSE 31

\* datetime(y, m, d) raises ValueError unless this holds
ValidDate(y, m, d) ==
    /\ MINYEAR <= y /\ y <= MAXYEAR
    /\ 1 <= m /\ m <= 12
    /\ 1 <= d /\ d <= DaysInMonth(y, m)

\* %Y as the C library prints it: glibc prints the year without padding
\* (years below 1000 come out in fewer than four digits), other libraries
\* pad to four digits.  pad is the platform's choice.
StrftimeYear(y, pad) == IF pad THEN ZeroPad(str(y), 4) ELSE str(y)

\* date.strftime('%Y%m%d')
Strftime(y, m, d, pad) ==
    StrftimeYear(y, pad) \o ZeroPad(str(m), 2) \o ZeroPad(str(d), 2)

None == [none |-> TRUE, text |-> <<>>]

Some(t) == [none |-> FALSE, text |-> t]

parse_period(s, pad) ==
    LET dates == findall(s, 1)
    IN  IF Len(dates) # 2 THEN None
        ELSE LET y1 == int(dates[1][1])
                 m1 == int(dates[1][2])
                 d1 == int(dates[1][3])
                 y2 == int(dates[2][1])
                 m2 == int(dates[2][2])
                 d2 == int(dates[2][3])
             IN  IF ~ValidDate(y1, m1, d1) \/ ~ValidDate(y2, m2, d2)
                 THEN None   \* ValueError, caught by "except Exception"
                 ELSE Some(Strftime(y1, m1, d1, pad) \o <<"-">>
                           \o Strftime(y2, m2, d2, pad))

-----------------------------------------------------------------------------
(* Period texts *)

\* A date as a period text writes it: year, month, day in digits
Date(y, m, d) == [kind |-> "date", y |-> y, m |-> m, d |-> d]

\* Text that holds no date
Noise(t) == [kind |-> "noise", text |-> t]

DateFragments ==
    { Date(<<"2", "0", "2", "4">>, <<"6">>, <<"2", "8">>),
      Date(<<"2", "0", "2", "4">>, <<"0", "6">>, <<"3", "0">>),
      Date(<<"2", "0", "2", "3">>, <<"1", "2">>, <<"1">>),
      Date(<<"2", "0", "2", "4">>, <<"2">>, <<"2", "9">>),
      Date(<<"2", "0", "2", "3">>, <<"2">>, <<"2", "9">>),
      Date(<<"2", "0", "2", "4">>, <<"1", "3">>, <<"1">>),
      Date(<<"2", "0", "2", "4">>, <<"6">>, <<"3", "1">>),
      Date(<<"0", "9", "9", "9">>, <<"1">>, <<"1">>),
      Date(<<"0", "0", "0", "0">>, <<"1">>, <<"1">>) }

NoiseFragments ==
    { Noise(<<"2", "0", "2", "4", "-", "0", "6", "-", "2", "8">>),
      Noise(<<"2", "0", "2", "Y", "6", "M", "2", "8", "D">>),
      Noise(<<"2", "0", "2", "4", "Y", "6", "M", "2", "8", "1", "D">>),
      Noise(<<"2", "0", "2", "4", "Y", "M", "2", "8", "D">>) }

Fragments == DateFragments \cup NoiseFragments

FragmentText(f) ==
    IF f.kind = "date" THEN f.y \o <<"Y">> \o f.m \o <<"M">> \o f.d \o <<"D">>
    ELSE f.text

\* The fragments written one after the other, "~" between them
RECURSIVE PeriodText(_)
PeriodText(fs_) ==
    IF fs_ = <<>> THEN <<>>
    ELSE IF Len(fs_) = 1 THEN FragmentText(fs_[1])
    ELSE FragmentText(fs_[1]) \o <<"~">> \o PeriodText(Tail(fs_))

SeqsUpTo(S, n) == UNION { [1..k -> S] : k \in 0..n }

-----------------------------------------------------------------------------
(* SpecParse: parse_period applied to bounded period texts *)

Idle ==
    /\ attempt_outcomes = <<>>
    /\ download_results = <<>>
    /\ manifest = [readable |-> FALSE, columns |-> {}, rows |-> <<>>]
    /\ retries = 1
    /\ backoff_factor = 1
    /\ records = <<>>
    /\ idx = 0
    /\ download_path = <<>>
    /\ attempt = 0
    /\ fetchCalls = 0
    /\ uploadCalls = 0
    /\ dlSleeps = <<>>
    /\ ulSleeps = <<>>
    /\ lastFetch = "none"
    /\ fetchLog = <<>>
    /\ uploadLog = <<>>
    /\ jobState = <<>>
    /\ hist = <<>>
    /\ paths = <<>>
    /\ ends = <<>>
    /\ fs = <<>>
    /\ s3 = <<>>
    /\ removed = {}

InitParse ==
    /\ padYear \in BOOLEAN
    /\ period_parts \in SeqsUpTo(Fragments, MaxDates)
    /\ period_str = PeriodText(period_parts)
    /\ formatted_period = None
    /\ pc = "parse"
    /\ Idle

ParsePeriod ==
    /\ pc = "parse"
    /\ formatted_period' = parse_period(period_str, padYear)
    /\ pc' = "parsed"
    /\ UNCHANGED <<padYear, period_parts, period_str, attempt_outcomes,
                   download_results, manifest, retries,
                   backoff_factor, records, idx, download_path, attempt,
                   fetchCalls, uploadCalls, dlSleeps, ulSleeps, lastFetch, fetchLog,
                   uploadLog, jobState, hist, paths, ends, fs, s3, removed>>

NextParse == ParsePeriod

SpecParse == InitParse /\ [][NextParse]_vars

-----------------------------------------------------------------------------
(* read_urls_from_csv *)

\* The columns of the manifest: delivery-history ID, data name, period, URL,
\* expiry (the source names them in Japanese)
required_columns == {"delivery_id", "data_name", "period", "URL", "expiration"}

\* The subset argument of df.dropna
dropna_subset == {"delivery_id", "period", "URL", "expiration"}

\* A cell of the data frame: NaN, or the text read
NaN == [na |-> TRUE, v |-> <<>>]

Cell(t) == [na |-> FALSE, v |-> t]

\* dropna that drops a row for a NaN in any of its columns
M_dropna_AnyColumn(rows, cols) ==
    SelectSeq(rows, LAMBDA row : \A c \in DOMAIN row : ~row[c].na)

\* df.dropna(subset=cols): the rows with no NaN in the columns cols
dropna(rows, cols) ==
    SelectSeq(rows, LAMBDA row : \A c \in cols : ~row[c].na)

\* m is the file: whether pd.read_csv can read it, and the data frame read
read_urls_from_csv(m) ==
    IF ~m.readable THEN <<>>                         \* except Exception
    ELSE IF \E col \in required_columns : col \notin m.columns THEN <<>>
    ELSE dropna(m.rows, dropna_subset)

-----------------------------------------------------------------------------
(* SpecCsv: read_urls_from_csv applied to bounded manifests *)

\* The cell of row i, column c, when it is not NaN: it names its row
Tagged(i) == Cell(<<"r", Digits[i + 1]>>)

Unreadable == [readable |-> FALSE, columns |-> {}, rows |-> <<>>]

\* The data frame with the columns cols and n rows; na says which cells are NaN
CsvManifest(cols, n, na) ==
    [readable |-> TRUE, columns |-> cols,
     rows |-> [i \in 1..n |->
                 [c \in cols |-> IF na[i][c] THEN NaN ELSE Tagged(i)]]]

InitCsv ==
    /\ padYear = FALSE
    /\ period_parts = <<>>
    /\ period_str = <<>>
    /\ formatted_period = None
    /\ attempt_outcomes = <<>>
    /\ download_results = <<>>
    /\ pc = "csv"
    /\ \/ manifest = Unreadable
       \/ \E cols \in SUBSET required_columns :
            \E n \in 0..MaxCsvRows :
              \E na \in [1..n -> [cols -> BOOLEAN]] :
                manifest = CsvManifest(cols, n, na)
    /\ retries = 1
    /\ backoff_factor = 1
    /\ records = <<>>
    /\ idx = 0
    /\ download_path = <<>>
    /\ attempt = 0
    /\ fetchCalls = 0
    /\ uploadCalls = 0
    /\ dlSleeps = <<>>
    /\ ulSleeps = <<>>
    /\ lastFetch = "none"
    /\ fetchLog = <<>>
    /\ uploadLog = <<>>
    /\ jobState = <<>>
    /\ hist = <<>>
    /\ paths = <<>>
    /\ ends = <<>>
    /\ fs = <<>>
    /\ s3 = <<>>
    /\ removed = {}

ReadCsv ==
    /\ pc = "csv"
    /\ records' = read_urls_from_csv(manifest)
    /\ pc' = "csvdone"
    /\ UNCHANGED <<padYear, period_parts, period_str, formatted_period,
                   attempt_outcomes, download_results,
                   manifest, retries, backoff_factor, idx, download_path,
                   attempt, fetchCalls, uploadCalls, dlSleeps, ulSleeps,
                   lastFetch, fetchLog, uploadLog, jobState, hist, paths, ends, fs,
                   s3, removed>>

NextCsv == ReadCsv

SpecCsv == InitCsv /\ [][NextCsv]_vars

-----------------------------------------------------------------------------
(* main: the names it builds *)

DOWNLOAD_DIR == <<".", "/", "d", "a", "t", "a", "/", "o", "u", "t", "p", "u", "t", "/">>

\* f"{x}" of what parse_period returned
Format(p) == IF p.none THEN NoneText ELSE p.text

\* file_name = f"{delivery_id}_{formatted_expiration}.zip"
file_name(record, pad) ==
    record["delivery_id"].v \o <<"_">>
        \o Format(parse_period(record["period"].v, pad))
        \o <<".", "z", "i", "p">>

\* os.path.join(dir, name): an absolute name replaces dir; dir ends in "/"
os_path_join(dir, name) ==
    IF name # <<>> /\ name[1] = "/" THEN name ELSE dir \o name

-----------------------------------------------------------------------------
(* The retry decisions of download_file and upload_to_s3 *)

BACKOFF_FACTOR == 5

\* OnCalledProcessError with a wait that does not grow with the attempt
M_OnCalledProcessError_ConstantWait(att, R, b) ==
    IF att < R THEN [retry |-> TRUE, wait |-> b]
    ELSE [retry |-> FALSE, wait |-> 0]

\* except subprocess.CalledProcessError: sleep and retry, or give up
OnCalledProcessError(att, R, b) ==
    IF att < R THEN [retry |-> TRUE, wait |-> b * att]
    ELSE [retry |-> FALSE, wait |-> 0]

\* OnException that gives up at once
M_OnException_GivesUp(att, R, b) == [retry |-> FALSE, wait |-> 0]

\* except Exception: sleep and retry, or give up
OnException(att, R, b) ==
    IF att < R THEN [retry |-> TRUE, wait |-> b * att]
    ELSE [retry |-> FALSE, wait |-> 0]

\* OnClientError that allows one attempt more than retries
M_OnClientError_OneMoreAttempt(att, R, b) ==
    IF att <= R THEN [retry |-> TRUE, wait |-> b * att]
    ELSE [retry |-> FALSE, wait |-> 0]

\* except ClientError: sleep and retry, or give up
OnClientError(att, R, b) ==
    IF att < R THEN [retry |-> TRUE, wait |-> b * att]
    ELSE [retry |-> FALSE, wait |-> 0]

-----------------------------------------------------------------------------
(* download_file as a function of what each curl attempt does *)

\* What one attempt does: curl exits 0, curl exits with another status
\* (CalledProcessError), or running it raises another exception
FetchOutcomes == {"ok", "CalledProcessError", "Exception"}

\* The for loop of download_file from attempt att on, sleeps being the
\* sleeps made so far; outcomes[k] is what attempt k does
RECURSIVE download_attempts(_, _, _, _, _)
download_attempts(outcomes, att, R, b, sleeps) ==
    IF att > R
    THEN [calls |-> att - 1, sleeps |-> sleeps, result |-> "None"]
    ELSE IF outcomes[att] = "ok"
    THEN [calls |-> att, sleeps |-> sleeps, result |-> "True"]
    ELSE LET h == IF outcomes[att] = "CalledProcessError"
                  THEN OnCalledProcessError(att, R, b)
                  ELSE OnException(att, R, b)
         IN  IF h.retry
             THEN download_attempts(outcomes, att + 1, R, b,
                                    Append(sleeps, h.wait))
             ELSE [calls |-> att, sleeps |-> sleeps, result |-> "False"]

\* download_file(url, download_path, retries=R, backoff_factor=b): the
\* number of curl calls, the sleeps and the value returned
download_file(outcomes, R, b) == download_attempts(outcomes, 1, R, b, <<>>)

-----------------------------------------------------------------------------
(* SpecDownload: download_file run under two scripts of attempt outcomes *)

InitDownload ==
    /\ padYear = FALSE
    /\ period_parts = <<>>
    /\ period_str = <<>>
    /\ formatted_period = None
    /\ retries \in 1..MaxRetries
    /\ backoff_factor \in {1, BACKOFF_FACTOR}
    /\ attempt_outcomes \in [1..2 -> [1..retries -> FetchOutcomes]]
    /\ download_results = <<>>
    /\ pc = "twice"
    /\ manifest = [readable |-> FALSE, columns |-> {}, rows |-> <<>>]
    /\ records = <<>>
    /\ idx = 0
    /\ download_path = <<>>
    /\ attempt = 0
    /\ fetchCalls = 0
    /\ uploadCalls = 0
    /\ dlSleeps = <<>>
    /\ ulSleeps = <<>>
    /\ lastFetch = "none"
    /\ fetchLog = <<>>
    /\ uploadLog = <<>>
    /\ jobState = <<>>
    /\ hist = <<>>
    /\ paths = <<>>
    /\ ends = <<>>
    /\ fs = <<>>
    /\ s3 = <<>>
    /\ removed = {}

DownloadTwice ==
    /\ pc = "twice"
    /\ download_results' =
          [r \in 1..2 |->
              download_file(attempt_outcomes[r], retries, backoff_factor)]
    /\ pc' = "twicedone"
    /\ UNCHANGED <<padYear, period_parts, period_str, formatted_period,
                   attempt_outcomes, manifest, retries, backoff_factor,
                   records, idx, download_path, attempt, fetchCalls,
                   uploadCalls, dlSleeps, ulSleeps, lastFetch, fetchLog,
                   uploadLog, jobState, hist, paths, ends, fs, s3, removed>>

NextDownload == DownloadTwice

SpecDownload == InitDownload /\ [][NextDownload]_vars

-----------------------------------------------------------------------------
(* Spec: main on bounded manifests *)

GoodPeriod ==
    PeriodText(<<Date(<<"2", "0", "2", "4">>, <<"6">>, <<"2", "8">>),
                 Date(<<"2", "0", "2", "4">>, <<"6">>, <<"3", "0">>)>>)

BadPeriod == <<"2", "0", "2", "4", "-", "0", "6", "-", "2", "8">>

Row(id, period) ==
    [c \in required_columns |->
        IF c = "delivery_id" THEN id
        ELSE IF c = "period" THEN period
        ELSE Cell(<<"x">>)]

MainRows ==
    { Row(Cell(<<"A", "1">>), Cell(GoodPeriod)),
      Row(Cell(<<"B", "2">>), Cell(GoodPeriod)),
      Row(Cell(<<"A", "1">>), Cell(BadPeriod)) }

Table(rows) == [readable |-> TRUE, columns |-> required_columns, rows |-> rows]

MainManifests ==
    { Table(rows) : rows \in SeqsUpTo(MainRows, MaxRecords) }
    \cup { Unreadable,
           [readable |-> TRUE, columns |-> dropna_subset, rows |-> <<>>],
           Table(<<Row(Cell(<<"A", "1">>), NaN),
                   Row(Cell(<<"A", "1">>), Cell(GoodPeriod))>>) }

NoEnds == [format |-> "none", download |-> "none", upload |-> "none",
           remove |-> "none"]

\* The backoff_factor argument is BACKOFF_FACTOR, or another value set there
Backoffs == {1, BACKOFF_FACTOR}

Init ==
    /\ padYear \in BOOLEAN
    /\ period_parts = <<>>
    /\ period_str = <<>>
    /\ formatted_period = None
    /\ attempt_outcomes = <<>>
    /\ download_results = <<>>
    /\ manifest \in MainManifests
    /\ retries \in 1..MaxRetries
    /\ backoff_factor \in Backoffs
    /\ pc = "main"
    /\ records = <<>>
    /\ idx = 0
    /\ download_path = <<>>
    /\ attempt = 0
    /\ fetchCalls = 0
    /\ uploadCalls = 0
    /\ dlSleeps = <<>>
    /\ ulSleeps = <<>>
    /\ lastFetch = "none"
    /\ fetchLog = <<>>
    /\ uploadLog = <<>>
    /\ jobState = <<>>
    /\ hist = <<>>
    /\ paths = <<>>
    /\ ends = <<>>
    /\ fs = <<>>
    /\ s3 = <<>>
    /\ removed = {}

inputs == <<padYear, period_parts, period_str, formatted_period,
            attempt_outcomes, download_results, manifest, retries,
            backoff_factor>>

\* jobState[idx] becomes st
SetJob(st) ==
    /\ jobState' = [jobState EXCEPT ![idx] = st]
    /\ hist' = [hist EXCEPT ![idx] = Append(@, st)]

SetEnd(stage, how) == ends' = [ends EXCEPT ![idx][stage] = how]

\* Continue that runs the body again for the same record
M_Continue_SameRecordAgain == pc' = "download"

\* The end of the loop body, or a continue: back to the for statement when
\* records are left, the return of main when none is
Continue == pc' = IF idx < Len(records) THEN "record" ELSE "returned"

\* path holds the file f
WriteFile(path, f) ==
    [p \in (DOMAIN fs) \cup {path} |-> IF p = path THEN f ELSE fs[p]]

\* NoFile that leaves the file where it is
M_NoFile_LeavesFile(path) == fs

\* path holds no file
NoFile(path) == [p \in (DOMAIN fs) \ {path} |-> fs[p]]

\* main up to the loop: read the manifest, return when it is empty
MainStart ==
    /\ pc = "main"
    /\ LET rs == read_urls_from_csv(manifest)
       IN  /\ records' = rs
           /\ jobState' = [i \in 1..Len(rs) |-> "NotStarted"]
           /\ hist' = [i \in 1..Len(rs) |-> <<>>]
           /\ paths' = [i \in 1..Len(rs) |-> <<>>]
           /\ ends' = [i \in 1..Len(rs) |-> NoEnds]
           /\ pc' = IF rs = <<>> THEN "returned" ELSE "record"
    /\ UNCHANGED <<inputs, idx, download_path, attempt, fetchCalls,
                   uploadCalls, dlSleeps, ulSleeps, lastFetch, fetchLog,
                   uploadLog, fs, s3, removed>>

\* The for statement takes the next record, and the head of the loop body.
\* parse_period never raises (it catches every exception and returns None),
\* so the "except ValueError" branch of main is never taken and the names
\* are built from whatever parse_period returned.
BeginRecord ==
    /\ pc = "record"
    /\ idx' = idx + 1
    /\ LET record == records[idx + 1]
           formatted_expiration == parse_period(record["period"].v, padYear)
           path == os_path_join(DOWNLOAD_DIR, file_name(record, padYear))
       IN  /\ download_path' = path
           /\ paths' = [paths EXCEPT ![idx + 1] = path]
           /\ jobState' = [jobState EXCEPT ![idx + 1] = "Pending"]
           /\ hist' = [hist EXCEPT ![idx + 1] = <<"Pending">>]
           /\ ends' = [ends EXCEPT ![idx + 1]["format"] =
                          IF formatted_expiration.none THEN "None" ELSE "ok"]
    /\ pc' = "download"
    /\ attempt' = 1
    /\ fetchCalls' = 0
    /\ uploadCalls' = 0
    /\ dlSleeps' = <<>>
    /\ ulSleeps' = <<>>
    /\ lastFetch' = "none"
    /\ fetchLog' = <<>>
    /\ uploadLog' = <<>>
    /\ UNCHANGED <<inputs, records, fs, s3, removed>>

\* DownloadGivenUp that goes on to the upload in place of the continue
M_DownloadGivenUp_GoesOnToUpload ==
    /\ SetJob("FailedDownload")
    /\ SetEnd("download", "failed")
    /\ pc' = "upload"
    /\ UNCHANGED <<attempt, dlSleeps>>

\* What main does when download_file has returned False: skip the record
DownloadGivenUp ==
    /\ SetJob("FailedDownload")
    /\ SetEnd("download", "failed")
    /\ Continue
    /\ UNCHANGED <<attempt, dlSleeps>>

\* A failed attempt of download_file, decided by the handler's decision h:
\* sleep and go round the loop again, or return False
DownloadFailed(h) ==
    IF h.retry
    THEN /\ dlSleeps' = Append(dlSleeps, h.wait)
         /\ attempt' = attempt + 1
         /\ UNCHANGED <<pc, jobState, hist, ends>>
    ELSE DownloadGivenUp

\* curl may have written part of the file before it failed
AfterFailedFetch(partial) ==
    fs' = IF partial
          THEN WriteFile(download_path, [by |-> idx, whole |-> FALSE])
          ELSE fs

\* FetchSucceeds after which upload_to_s3 goes on counting its attempts
\* from where download_file stopped
M_FetchSucceeds_SharedAttemptCount ==
    /\ pc = "download"
    /\ fetchCalls' = fetchCalls + 1
    /\ lastFetch' = "ok"
    /\ fetchLog' = Append(fetchLog, "ok")
    /\ fs' = WriteFile(download_path, [by |-> idx, whole |-> TRUE])
    /\ SetJob("Downloaded")
    /\ SetEnd("download", "ok")
    /\ pc' = "upload"
    /\ UNCHANGED attempt
    /\ UNCHANGED <<inputs, records, idx, download_path, uploadCalls, dlSleeps,
                   ulSleeps, uploadLog, paths, s3, removed>>

\* download_file, one attempt: curl exits 0; main goes on to the upload
FetchSucceeds ==
    /\ pc = "download"
    /\ fetchCalls' = fetchCalls + 1
    /\ lastFetch' = "ok"
    /\ fetchLog' = Append(fetchLog, "ok")
    /\ fs' = WriteFile(download_path, [by |-> idx, whole |-> TRUE])
    /\ SetJob("Downloaded")
    /\ SetEnd("download", "ok")
    /\ pc' = "upload"
    /\ attempt' = 1
    /\ UNCHANGED <<inputs, records, idx, download_path, uploadCalls, dlSleeps,
                   ulSleeps, uploadLog, paths, s3, removed>>

\* download_file, one attempt: curl exits with a non-zero status
FetchFailsStatus ==
    /\ pc = "download"
    /\ fetchCalls' = fetchCalls + 1
    /\ lastFetch' = "CalledProcessError"
    /\ fetchLog' = Append(fetchLog, "fail")
    /\ \E partial \in BOOLEAN : AfterFailedFetch(partial)
    /\ DownloadFailed(OnCalledProcessError(attempt, retries, backoff_factor))
    /\ UNCHANGED <<inputs, records, idx, download_path, uploadCalls, ulSleeps,
                   uploadLog, paths, s3, removed>>

\* download_file, one attempt: running curl raises another exception
FetchRaises ==
    /\ pc = "download"
    /\ fetchCalls' = fetchCalls + 1
    /\ lastFetch' = "Exception"
    /\ fetchLog' = Append(fetchLog, "fail")
    /\ \E partial \in BOOLEAN : AfterFailedFetch(partial)
    /\ DownloadFailed(OnException(attempt, retries, backoff_factor))
    /\ UNCHANGED <<inputs, records, idx, download_path, uploadCalls, ulSleeps,
                   uploadLog, paths, s3, removed>>

\* UploadGivenUp that deletes the local file as the success path does
M_UploadGivenUp_RemovesFile(how, fsNow) ==
    /\ SetJob("FailedUpload")
    /\ SetEnd("upload", how)
    /\ Continue
    /\ fs' = [p \in (DOMAIN fsNow) \ {download_path} |-> fsNow[p]]
    /\ removed' = removed \cup {download_path}
    /\ UNCHANGED <<attempt, ulSleeps>>

\* What main does when upload_to_s3 has returned False: keep the local
\* file (fsNow: the files as the attempt left them) and skip the record
UploadGivenUp(how, fsNow) ==
    /\ SetJob("FailedUpload")
    /\ SetEnd("upload", how)
    /\ Continue
    /\ fs' = fsNow
    /\ removed' = removed
    /\ UNCHANGED <<attempt, ulSleeps>>

\* upload_to_s3, one attempt: upload_file returns; main goes on to os.remove
UploadSucceeds ==
    /\ pc = "upload"
    /\ download_path \in DOMAIN fs
    /\ uploadCalls' = uploadCalls + 1
    /\ uploadLog' = Append(uploadLog, "ok")
    /\ LET key == file_name(records[idx], padYear)
       IN  s3' = [k \in (DOMAIN s3) \cup {key} |->
                     IF k = key THEN fs[download_path] ELSE s3[k]]
    /\ SetJob("Uploaded")
    /\ SetEnd("upload", "ok")
    /\ pc' = "remove"
    /\ UNCHANGED <<inputs, records, idx, download_path, attempt, fetchCalls,
                   dlSleeps, ulSleeps, lastFetch, fetchLog, paths, fs,
                   removed>>

\* upload_to_s3, one attempt: FileNotFoundError, there is no file at
\* file_path (never written, or taken away by another process)
UploadFileNotFound ==
    /\ pc = "upload"
    /\ uploadCalls' = uploadCalls + 1
    /\ uploadLog' = Append(uploadLog, "FileNotFoundError")
    /\ UploadGivenUp("FileNotFoundError", NoFile(download_path))
    /\ UNCHANGED <<inputs, records, idx, download_path, fetchCalls, dlSleeps,
                   lastFetch, fetchLog, paths, s3>>

\* UploadNoCredentials that sleeps and retries as for a ClientError
M_UploadNoCredentials_Retries ==
    /\ pc = "upload"
    /\ uploadCalls' = uploadCalls + 1
    /\ uploadLog' = Append(uploadLog, "NoCredentialsError")
    /\ IF attempt < retries
       THEN /\ ulSleeps' = Append(ulSleeps, backoff_factor * attempt)
            /\ attempt' = attempt + 1
            /\ UNCHANGED <<pc, jobState, hist, ends, fs, removed>>
       ELSE UploadGivenUp("NoCredentialsError", fs)
    /\ UNCHANGED <<inputs, records, idx, download_path, fetchCalls, dlSleeps,
                   lastFetch, fetchLog, paths, s3>>

\* upload_to_s3, one attempt: NoCredentialsError
UploadNoCredentials ==
    /\ pc = "upload"
    /\ uploadCalls' = uploadCalls + 1
    /\ uploadLog' = Append(uploadLog, "NoCredentialsError")
    /\ UploadGivenUp("NoCredentialsError", fs)
    /\ UNCHANGED <<inputs, records, idx, download_path, fetchCalls, dlSleeps,
                   lastFetch, fetchLog, paths, s3>>

\* upload_to_s3, one attempt: ClientError
UploadClientError ==
    /\ pc = "upload"
    /\ uploadCalls' = uploadCalls + 1
    /\ uploadLog' = Append(uploadLog, "ClientError")
    /\ LET h == OnClientError(attempt, retries, backoff_factor)
       IN  IF h.retry
           THEN /\ ulSleeps' = Append(ulSleeps, h.wait)
                /\ attempt' = attempt + 1
                /\ UNCHANGED <<pc, jobState, hist, ends, fs, removed>>
           ELSE UploadGivenUp("ClientError", fs)
    /\ UNCHANGED <<inputs, records, idx, download_path, fetchCalls, dlSleeps,
                   lastFetch, fetchLog, paths, s3>>

\* upload_to_s3, one attempt: upload_file raises an exception that is none
\* of the three upload_to_s3 catches (boto3's S3UploadFailedError, a
\* connection error, ...).  Nothing in upload_to_s3 or main catches it: it
\* leaves the loop and main.
UploadRaises ==
    /\ pc = "upload"
    /\ uploadCalls' = uploadCalls + 1
    /\ uploadLog' = Append(uploadLog, "raised")
    /\ SetEnd("upload", "raised")
    /\ pc' = "crashed"
    /\ UNCHANGED <<inputs, records, idx, download_path, attempt, fetchCalls,
                   dlSleeps, ulSleeps, lastFetch, fetchLog, jobState, hist,
                   paths, fs, s3, removed>>

\* os.remove(download_path) returns
RemoveSucceeds ==
    /\ pc = "remove"
    /\ download_path \in DOMAIN fs
    /\ fs' = NoFile(download_path)
    /\ removed' = removed \cup {download_path}
    /\ SetJob("Cleaned")
    /\ SetEnd("remove", "ok")
    /\ Continue
    /\ UNCHANGED <<inputs, records, idx, download_path, attempt, fetchCalls,
                   uploadCalls, dlSleeps, ulSleeps, lastFetch, fetchLog,
                   uploadLog, paths, s3>>

\* RemoveFails with no handler for the OSError: it leaves the loop and main
M_RemoveFails_Raises ==
    /\ pc = "remove"
    /\ SetEnd("remove", "OSError")
    /\ pc' = "crashed"
    /\ UNCHANGED <<inputs, records, idx, download_path, attempt, fetchCalls,
                   uploadCalls, dlSleeps, ulSleeps, lastFetch, fetchLog,
                   uploadLog, jobState, hist, paths, fs, s3, removed>>

\* os.remove(download_path) raises OSError: a warning, nothing else
RemoveFails ==
    /\ pc = "remove"
    /\ SetJob("FailedCleanup")
    /\ SetEnd("remove", "OSError")
    /\ Continue
    /\ UNCHANGED <<inputs, records, idx, download_path, attempt, fetchCalls,
                   uploadCalls, dlSleeps, ulSleeps, lastFetch, fetchLog,
                   uploadLog, paths, fs, s3, removed>>

Next ==
    \/ MainStart
    \/ BeginRecord
    \/ FetchSucceeds
    \/ FetchFailsStatus
    \/ FetchRaises
    \/ UploadSucceeds
    \/ UploadFileNotFound
    \/ UploadNoCredentials
    \/ UploadClientError
    \/ UploadRaises
    \/ RemoveSucceeds
    \/ RemoveFails

Spec == Init /\ [][Next]_vars

\* Every call the program makes returns or raises, and the thread of control
\* then takes its next step
FairSpec == Spec /\ WF_vars(Next)

-----------------------------------------------------------------------------
(* Vocabulary of the claims *)

RecordIds == 1..Len(records)

Terminal == {"Cleaned", "FailedDownload", "FailedUpload", "FailedCleanup"}

\* main is over: it has returned, or an exception has left it
Ended == pc \in {"returned", "crashed"}

\* Record k failed at some stage: format, download, upload or cleanup
FailedAtSomeStage(k) ==
    \/ ends[k].format = "None"
    \/ ends[k].download = "failed"
    \/ ends[k].upload \in {"FileNotFoundError", "NoCredentialsError",
                           "ClientError", "raised"}
    \/ ends[k].remove = "OSError"

\* The terminal state the transfer state machine gives a record whose
\* download, upload and delete ended as e says
OwnOutcome(e) ==
    IF e.download = "failed" THEN "FailedDownload"
    ELSE IF e.download = "ok" /\ e.upload \notin {"ok", "none"} THEN "FailedUpload"
    ELSE IF e.upload = "ok" /\ e.remove = "OSError" THEN "FailedCleanup"
    ELSE IF e.upload = "ok" /\ e.remove = "ok" THEN "Cleaned"
    ELSE "none"

\* <<b*1, b*2, ..., b*n>>
LinearBackoff(b, n) == [k \in 1..n |-> b * k]

AllAre(log, x) == \A k \in 1..Len(log) : log[k] = x

-----------------------------------------------------------------------------
(* C1 *)

\* C1: failure isolation.  When the run is over, for every record k that
\* failed at any stage, every other record j has been processed (it is in a
\* terminal state) and its terminal state is the one its own outcomes give.
C1_FailureIsolation ==
    Ended =>
        \A k \in RecordIds : \A j \in RecordIds \ {k} :
            FailedAtSomeStage(k) =>
                /\ jobState[j] \in Terminal
                /\ jobState[j] = OwnOutcome(ends[j])

-----------------------------------------------------------------------------
(* C2 *)

\* Record i has been taken by the for statement
Reached(i) == i <= idx

\* C2: a record whose period parse_period cannot format is skipped: main
\* builds no local path for it and calls neither the Fetcher nor the
\* Uploader for it.
C2_FormatFailureSkipsRecord ==
    \A i \in RecordIds :
        (Reached(i) /\ parse_period(records[i]["period"].v, padYear).none) =>
            /\ paths[i] = <<>>
            /\ ends[i].download = "none"
            /\ ends[i].upload = "none"
            /\ (i = idx => fetchCalls = 0 /\ uploadCalls = 0)

-----------------------------------------------------------------------------
(* C3 *)

\* C3: no error raised while a record is processed leaves the per-record
\* loop of main.
C3_NoErrorLeavesTheLoop == pc # "crashed"

-----------------------------------------------------------------------------
(* C7 *)

\* C7: the run ends with main returning normally and every record in a
\* terminal state: whenever main is over, it has returned and no record is
\* left unprocessed.
C7_RunEndsWithNormalReturn ==
    Ended =>
        /\ pc = "returned"
        /\ \A i \in RecordIds : jobState[i] \in Terminal

-----------------------------------------------------------------------------
(* C4 *)

\* C4: with a Fetcher that fails on every attempt, download_file calls it
\* exactly retries times, sleeps backoff_factor*1, ..., backoff_factor*
\* (retries-1), one sleep after each failed attempt but the last, and then
\* returns False: the record is Failed(download).
C4_AllAttemptsFail ==
    (idx >= 1 /\ AllAre(fetchLog, "fail")) =>
        IF pc = "download"
        THEN \* between two attempts: every failed attempt was slept after
             /\ fetchCalls = Len(fetchLog)
             /\ fetchCalls < retries
             /\ dlSleeps = LinearBackoff(backoff_factor, fetchCalls)
        ELSE \* download_file has returned
             /\ fetchCalls = retries
             /\ Len(fetchLog) = retries
             /\ dlSleeps = LinearBackoff(backoff_factor, retries - 1)
             /\ ends[idx].download = "failed"
             /\ jobState[idx] = "FailedDownload"

C4_Witness ==
    /\ retries = MaxRetries
    /\ idx >= 1
    /\ AllAre(fetchLog, "fail")
    /\ fetchCalls = MaxRetries
    /\ Len(dlSleeps) = MaxRetries - 1
    /\ jobState[idx] = "FailedDownload"

-----------------------------------------------------------------------------
(* C5 *)

\* Every Uploader attempt of the run so far failed with a ClientError
UploaderAlwaysTransient ==
    /\ \A j \in RecordIds : ends[j].upload \in {"none", "ClientError"}
    /\ AllAre(uploadLog, "ClientError")

\* upload_to_s3 has returned for record i
UploadReturned(i) == i < idx \/ (i = idx /\ pc # "upload")

\* C5: with an Uploader that fails with a ClientError on every attempt, a
\* record whose download succeeded ends in Failed(upload) after exactly
\* retries Uploader calls, os.remove is never called on its local file, and
\* the file is there from then on, also when main has returned.
C5_UploadExhaustedKeepsFile ==
    \A i \in RecordIds :
        (UploaderAlwaysTransient /\ ends[i].download = "ok" /\ UploadReturned(i)) =>
            /\ jobState[i] = "FailedUpload"
            /\ hist[i] = <<"Pending", "Downloaded", "FailedUpload">>
            /\ (i = idx => uploadCalls = retries /\ Len(uploadLog) = retries)
            /\ paths[i] \notin removed
            /\ paths[i] \in DOMAIN fs

C5_Witness ==
    /\ pc = "returned"
    /\ retries = MaxRetries
    /\ idx >= 1
    /\ UploaderAlwaysTransient
    /\ ends[idx].download = "ok"
    /\ jobState[idx] = "FailedUpload"
    /\ uploadCalls = MaxRetries
    /\ paths[idx] \in DOMAIN fs

-----------------------------------------------------------------------------
(* C6 *)

\* The Fetcher, the Uploader and os.remove all succeeded for record i
AllSucceeded(i) ==
    /\ ends[i].download = "ok"
    /\ ends[i].upload = "ok"
    /\ ends[i].remove = "ok"

HappyPath == <<"Pending", "Downloaded", "Uploaded", "Cleaned">>

-----------------------------------------------------------------------------
(* C10 *)

NonRetryable == {"FileNotFoundError", "NoCredentialsError"}

\* C10: an Uploader attempt that fails with FileNotFoundError or
\* NoCredentialsError, at whatever attempt, is the last Uploader call for
\* the record: upload_to_s3 returns False at once, with no sleep after it
\* (the only sleeps are those after the earlier ClientErrors), and the
\* record is Failed(upload).
C10_NonRetryableFailsAtOnce ==
    \A k \in 1..Len(uploadLog) :
        uploadLog[k] \in NonRetryable =>
            /\ k = Len(uploadLog)
            /\ uploadCalls = k
            /\ ulSleeps = LinearBackoff(backoff_factor, k - 1)
            /\ pc # "upload"
            /\ jobState[idx] = "FailedUpload"

C10_Witness ==
    /\ retries = MaxRetries
    /\ Len(uploadLog) = 2
    /\ uploadLog[1] = "ClientError"
    /\ uploadLog[2] \in NonRetryable
    /\ uploadCalls < retries
    /\ jobState[idx] = "FailedUpload"

-----------------------------------------------------------------------------
(* C8 *)

\* The dates a period text was written from, in the order written
DatesOf(parts) == SelectSeq(parts, LAMBDA f : f.kind = "date")

ValidFragment(f) == ValidDate(int(f.y), int(f.m), int(f.d))

\* A written date as YYYYMMDD: its four year digits, its month and its day
\* padded to two digits
YYYYMMDD(f) == f.y \o ZeroPad(f.m, 2) \o ZeroPad(f.d, 2)

TwoValidDates(parts) ==
    /\ Len(DatesOf(parts)) = 2
    /\ ValidFragment(DatesOf(parts)[1])
    /\ ValidFragment(DatesOf(parts)[2])

InTextOrder(parts) ==
    Some(YYYYMMDD(DatesOf(parts)[1]) \o <<"-">> \o YYYYMMDD(DatesOf(parts)[2]))

\* C8: for a period text holding exactly two valid calendar dates,
\* parse_period returns the first written date and the second written date,
\* each as YYYYMMDD, joined by "-", in the order written.
C8_TwoDatesInTextOrder ==
    (pc = "parsed" /\ TwoValidDates(period_parts)) =>
        formatted_period = InTextOrder(period_parts)

\* What does hold of parse_period: the same, for years of four significant
\* digits (1000 and later), whatever the platform
C8_HoldsFromYear1000 ==
    (/\ pc = "parsed"
     /\ TwoValidDates(period_parts)
     /\ \A k \in 1..2 : int(DatesOf(period_parts)[k].y) >= 1000) =>
        formatted_period = InTextOrder(period_parts)

-----------------------------------------------------------------------------
(* C9 *)

\* The rows whose index is in K, in the order of rows
RECURSIVE RowsAt(_, _, _)
RowsAt(rows, K, i) ==
    IF i > Len(rows) THEN <<>>
    ELSE (IF i \in K THEN <<rows[i]>> ELSE <<>>) \o RowsAt(rows, K, i + 1)

\* The rows of the manifest that hold a value in each of the columns cols
RowsHolding(cols) ==
    RowsAt(manifest.rows,
           {i \in 1..Len(manifest.rows) :
               \A c \in cols : ~manifest.rows[i][c].na},
           1)

ManifestUsable ==
    /\ manifest.readable
    /\ {"delivery_id", "data_name", "period", "URL", "expiration"}
          \subseteq manifest.columns

\* C9 as stated: read_urls_from_csv returns the empty sequence when the
\* manifest cannot be read or lacks a required column, and otherwise exactly
\* the rows that hold a value in every required column, in manifest order.
C9_RowsWithEveryRequiredValue ==
    pc = "csvdone" =>
        records = IF ManifestUsable
                  THEN RowsHolding({"delivery_id", "data_name", "period",
                                    "URL", "expiration"})
                  ELSE <<>>

\* C9 as amended: otherwise exactly the rows that hold a delivery ID, a
\* period, a URL and an expiry, in manifest order; a row without a data
\* name is returned although the data-name column is required.
C9_RowsWithFourValues ==
    pc = "csvdone" =>
        records = IF ManifestUsable
                  THEN RowsHolding({"delivery_id", "period", "URL",
                                    "expiration"})
                  ELSE <<>>

C9_Witness ==
    /\ pc = "csvdone"
    /\ ManifestUsable
    /\ Len(manifest.rows) = 2
    /\ manifest.rows[1]["URL"].na
    /\ records = <<manifest.rows[2]>>
    /\ records[1]["data_name"].na

-----------------------------------------------------------------------------
(* C11 *)

\* The latest curl attempt of the current record exited 0
LastFetchSucceeded ==
    /\ fetchLog # <<>>
    /\ fetchLog[Len(fetchLog)] = "ok"

\* C11: the Uploader is called for a record only after a curl attempt for
\* that record succeeded; for a record whose download ended in
\* Failed(download), s3_client.upload_file is never called and os.remove is
\* never called by main for it.
C11_UploadOnlyAfterFetchSuccess ==
    /\ (idx >= 1 /\ (pc \in {"upload", "remove"} \/ uploadCalls > 0)) =>
            /\ LastFetchSucceeded
            /\ ends[idx].download = "ok"
    /\ \A i \in RecordIds :
          /\ (ends[i].upload # "none" \/ ends[i].remove # "none") =>
                ends[i].download = "ok"
          /\ ends[i].download = "failed" =>
                /\ jobState[i] = "FailedDownload"
                /\ hist[i] = <<"Pending", "FailedDownload">>
                /\ ends[i].upload = "none"
                /\ ends[i].remove = "none"
                /\ (i = idx => uploadCalls = 0 /\ uploadLog = <<>>)

\* The run is over, one record failed its download after retries attempts
\* and another was uploaded
C11_Witness ==
    /\ pc = "returned"
    /\ \E i \in RecordIds : \E j \in RecordIds :
          /\ jobState[i] = "FailedDownload"
          /\ ends[i].upload = "none"
          /\ ends[j].upload = "ok"

-----------------------------------------------------------------------------
(* C12 *)

\* s3_key of record i
s3_key(i) == file_name(records[i], padYear)

\* C12: when os.remove raises OSError after a successful upload, the record
\* stays a successful upload (Pending, Downloaded, Uploaded, then the
\* cleanup failure: never Failed(download) or Failed(upload)), the object
\* uploaded is in the bucket under its key (the record's own upload, or that
\* of a later record with the same key), and main goes on to the next
\* record, or returns when there is none.
C12_DeleteFailureKeepsUpload ==
    \A i \in RecordIds :
        ends[i].remove = "OSError" =>
            /\ ends[i].download = "ok"
            /\ ends[i].upload = "ok"
            /\ jobState[i] = "FailedCleanup"
            /\ hist[i] = <<"Pending", "Downloaded", "Uploaded", "FailedCleanup">>
            /\ s3_key(i) \in DOMAIN s3
            /\ s3[s3_key(i)].whole
            /\ \/ s3[s3_key(i)].by = i
               \/ \E j \in (i + 1)..idx :
                     s3_key(j) = s3_key(i) /\ s3[s3_key(i)].by = j
            /\ (i = idx =>
                  pc = IF idx < Len(records) THEN "record" ELSE "returned")
            /\ (i < idx => jobState[i + 1] # "NotStarted")

\* os.remove failed for a record, main processed the record after it and
\* returned; the object of the first is in the bucket
C12_Witness ==
    /\ pc = "returned"
    /\ \E i \in RecordIds :
          /\ i < Len(records)
          /\ ends[i].remove = "OSError"
          /\ jobState[i] = "FailedCleanup"
          /\ jobState[i + 1] \in Terminal
          /\ s3_key(i) \in DOMAIN s3
          /\ s3[s3_key(i)].by = i

-----------------------------------------------------------------------------
(* C13 *)

\* Record i ended in Failed(upload) after a successful download, and its
\* file was at its local path when upload_to_s3 returned
RetainedAfterFailedUpload(i) ==
    /\ ends[i].download = "ok"
    /\ jobState[i] = "FailedUpload"
    /\ ends[i].upload \in {"ClientError", "NoCredentialsError"}

\* C13: when the run is over, the file downloaded by a record that ended in
\* Failed(upload) is at the record's local path as the record's download
\* wrote it: no other record of the run deleted or overwrote it.
C13_RetainedFileUntouchedByOthers ==
    Ended =>
        \A i \in RecordIds :
            RetainedAfterFailedUpload(i) =>
                /\ paths[i] \in DOMAIN fs
                /\ fs[paths[i]] = [by |-> i, whole |-> TRUE]

\* The file a Failed(upload) record retained is gone when the run is over
C13_RetainedFileDeleted ==
    /\ Ended
    /\ \E i \in RecordIds :
          RetainedAfterFailedUpload(i) /\ paths[i] \notin DOMAIN fs

\* The file a Failed(upload) record retained has been overwritten by the
\* failed download of a later record when the run is over
C13_RetainedFileOverwritten ==
    /\ Ended
    /\ \E i \in RecordIds :
          /\ RetainedAfterFailedUpload(i)
          /\ paths[i] \in DOMAIN fs
          /\ fs[paths[i]].by > i
          /\ ~fs[paths[i]].whole

-----------------------------------------------------------------------------
(* C14 *)

\* The stage whose attempts are logged in log made calls calls and slept
\* sleeps: a success is the last attempt of the stage, it comes after a - 1
\* sleeps of b*1 .. b*(a-1), and the stage is over
StopsAtFirstSuccess(log, calls, sleeps, stage) ==
    \A a \in 1..Len(log) :
        log[a] = "ok" =>
            /\ a = Len(log)
            /\ a <= retries
            /\ calls = a
            /\ sleeps = LinearBackoff(backoff_factor, a - 1)
            /\ pc # stage

\* C14: for every record the Fetcher is called at most retries times and
\* the Uploader at most retries times; when an attempt a of a stage
\* succeeds, the stage made exactly a calls and a - 1 sleeps of
\* backoff_factor*1 .. backoff_factor*(a-1), and it makes no call after it
\* for that record.
C14_BoundedRetryStopsAtFirstSuccess ==
    /\ fetchCalls = Len(fetchLog)
    /\ uploadCalls = Len(uploadLog)
    /\ fetchCalls <= retries
    /\ uploadCalls <= retries
    /\ StopsAtFirstSuccess(fetchLog, fetchCalls, dlSleeps, "download")
    /\ StopsAtFirstSuccess(uploadLog, uploadCalls, ulSleeps, "upload")

\* The download succeeded at its second attempt and the upload at its last,
\* and main has returned
C14_Witness ==
    /\ pc = "returned"
    /\ retries = MaxRetries
    /\ fetchLog = <<"fail", "ok">>
    /\ dlSleeps = <<backoff_factor>>
    /\ Len(uploadLog) = MaxRetries
    /\ uploadLog[MaxRetries] = "ok"
    /\ Len(ulSleeps) = MaxRetries - 1

-----------------------------------------------------------------------------
(* C15 *)

\* Every attempt of log but the last failed, and the last succeeded
OnlyLastSucceeded(log) ==
    /\ log # <<>>
    /\ \A k \in 1..Len(log) : (log[k] = "ok") <=> (k = Len(log))

\* C15: download and upload are independent retry domains.  Whatever number
\* of curl attempts the download of a record took, upload_to_s3 starts at
\* attempt 1, its sleeps start again at backoff_factor*1, and it gives up on
\* ClientErrors only after retries Uploader calls; and once the Uploader has
\* been called for a record, the curl attempts of the record are those made
\* before: the one that succeeded is the last (no Uploader failure sends the
\* record back to the Fetcher).
C15_IndependentRetryDomains ==
    /\ pc = "upload" =>
          /\ attempt = uploadCalls + 1
          /\ ulSleeps = LinearBackoff(backoff_factor, uploadCalls)
    /\ (idx >= 1 /\ pc # "upload" /\ uploadLog # <<>>
                 /\ AllAre(uploadLog, "ClientError")) =>
          /\ uploadCalls = retries
          /\ ulSleeps = LinearBackoff(backoff_factor, retries - 1)
    /\ (pc \in {"upload", "remove"} \/ uploadCalls > 0) =>
          /\ OnlyLastSucceeded(fetchLog)
          /\ fetchCalls = Len(fetchLog)
          /\ dlSleeps = LinearBackoff(backoff_factor, fetchCalls - 1)

\* The download used every attempt it had, and the upload after it had
\* retries attempts of its own, with sleeps from backoff_factor*1
C15_Witness ==
    /\ retries = MaxRetries
    /\ idx >= 1
    /\ fetchCalls = MaxRetries
    /\ OnlyLastSucceeded(fetchLog)
    /\ uploadCalls = MaxRetries
    /\ AllAre(uploadLog, "ClientError")
    /\ ulSleeps = LinearBackoff(backoff_factor, MaxRetries - 1)
    /\ jobState[idx] = "FailedUpload"

-----------------------------------------------------------------------------
(* C16 *)

\* The two scripts agree on which attempts succeed
SameSuccesses(o1, o2) ==
    \A k \in 1..retries : (o1[k] = "ok") <=> (o2[k] = "ok")

\* C16: download_file treats a curl attempt that exits with a non-zero
\* status and one that raises another exception alike: under two scripts
\* of attempt outcomes that agree on which attempts succeed it makes the
\* same number of curl calls, sleeps the same durations in the same order
\* and returns the same value.
C16_FailureKindsRetryAlike ==
    (pc = "twicedone"
        /\ SameSuccesses(attempt_outcomes[1], attempt_outcomes[2])) =>
        /\ download_results[1].calls = download_results[2].calls
        /\ download_results[1].sleeps = download_results[2].sleeps
        /\ download_results[1].result = download_results[2].result

\* One script fails every attempt with a non-zero status, the other with
\* an exception; both runs used every attempt and slept between them
C16_Witness ==
    /\ pc = "twicedone"
    /\ retries = MaxRetries
    /\ AllAre(attempt_outcomes[1], "CalledProcessError")
    /\ AllAre(attempt_outcomes[2], "Exception")
    /\ download_results[2].calls = MaxRetries
    /\ download_results[2].sleeps = LinearBackoff(backoff_factor, MaxRetries - 1)
    /\ download_results[2].result = "False"
    /\ download_results[1] = download_results[2]

-----------------------------------------------------------------------------
(* C17 *)

\* main is inside the loop body, at work on record idx
AtWork == pc \in {"download", "upload", "remove"}

\* Every record before the current one is terminal, every record after it
\* is untouched, and the record main works on is not yet terminal
OneRecordAtATime ==
    /\ idx <= Len(records)
    /\ \A j \in RecordIds :
          /\ j < idx => jobState[j] \in Terminal
          /\ j > idx =>
                /\ jobState[j] = "NotStarted"
                /\ hist[j] = <<>>
                /\ paths[j] = <<>>
                /\ ends[j] = NoEnds
    /\ AtWork => idx \in RecordIds /\ jobState[idx] \notin Terminal
    /\ \A p \in DOMAIN fs : fs[p].by <= idx
    /\ \A k \in DOMAIN s3 : s3[k].by <= idx

\* A Fetcher or Uploader call is made in this step
Invocation == fetchCalls' > fetchCalls \/ uploadCalls' > uploadCalls

\* The for statement moves to the next record only, and only when the
\* current one is terminal; a Fetcher or Uploader call is for the current
\* record, which is not terminal, and leaves every other record as it was
InManifestOrder ==
    /\ idx' \in {idx, idx + 1}
    /\ idx' = idx + 1 =>
          /\ idx = 0 \/ jobState[idx] \in Terminal
          /\ ~Invocation
    /\ Invocation =>
          /\ idx' = idx
          /\ idx \in RecordIds
          /\ jobState[idx] \notin Terminal
          /\ \A j \in RecordIds \ {idx} :
                /\ jobState'[j] = jobState[j]
                /\ hist'[j] = hist[j]
                /\ ends'[j] = ends[j]

\* C17: records are processed one at a time in manifest order.  No Fetcher
\* or Uploader call is made for record i+1 before record i is terminal, and
\* none is made for record i once the for statement has taken record i+1.
C17_StrictlySequential == []OneRecordAtATime /\ [][InManifestOrder]_vars

\* main is uploading the second record after the first ended in
\* Failed(upload)
C17_Witness ==
    /\ idx = 2
    /\ pc = "upload"
    /\ fetchCalls >= 1
    /\ uploadCalls >= 1
    /\ jobState[1] = "FailedUpload"
    /\ jobState[2] = "Downloaded"

=============================================================================
